---- MODULE Spec2Model ----
(***************************************************************************)
(* Model of internal/storage/blob/s3/s3.go: the S3 blob store.             *)
(*                                                                         *)
(* A blob handle (s3blob) couples a caller to a background goroutine that  *)
(* runs one PutObject call reading from an io.Pipe.  The caller writes to  *)
(* the pipe, then either Syncs (clean close of the write end, wait for the *)
(* goroutine's outcome on errCh) or Closes without Sync (error close).     *)
(* The store also offers Open (GetObject with not-found mapping) and       *)
(* Delete (RemoveObject over a list of keys).                              *)
(*                                                                         *)
(* Errors are modelled as sequences of strings so that wrapping            *)
(* (fmt.Errorf("...: %w", err)) is a real operation: Wrap(e) # e.          *)
(***************************************************************************)
EXTENDS Integers, Sequences, FiniteSets, TLC

\* ---------------------------------------------------------------- bounds
MaxChunk == 2
MaxWrites == 2
MaxRead == 2
MaxKeys == 3
PairWrites == 1

\* ------------------------------------------------------------- constants
ErrChCap == 1
StatusNotFound == 404

Bytes == {0, 1}
Keys == {"a", "b", "c"}
Handles == {1, 2}
Solo == {1}

\* An object left in the bucket by an earlier run (not made of Bytes).
OldObj == <<7>>

\* ---------------------------------------------------------------- errors
Nil == << >>
EOF == <<"EOF">>
ErrClosedPipe == <<"io: read/write on closed pipe">>
ErrNoSync == <<"storage.blob.s3: blob closed without Sync">>
ErrBackend(k) == <<"backend", k>>
ErrNoSuchBlob == <<"ErrNoSuchBlob">>

Wrap(e) == <<"s3 PutObject">> \o e

\* --------------------------------------------------------------- helpers
Min(a, b) == IF a < b THEN a ELSE b

Payloads == UNION {[1..n -> Bytes] : n \in 0..MaxChunk}

RECURSIVE Flat(_)
Flat(ss) == IF ss = << >> THEN << >> ELSE Head(ss) \o Flat(Tail(ss))

VARIABLES
  store,    \* bucket: key -> << >> (no object) or <<data>>
  store0,   \* the bucket at start
  hkey,     \* handle -> key passed to Create ("" before Create)
  pc,       \* caller position: "none" | "idle" | "write" | "sync" | "panic"
  didSync,  \* s3blob.didSync
  werr,     \* pipe: error stored by the first close of the write end
  rerr,     \* pipe: error stored by the first close of the read end
  wb,       \* pipe: bytes of the Write in progress not yet taken by a Read
  offered,  \* pipe: the writer is offering wb on the pipe's channel
  got,      \* bytes PutObject has read from the pipe so far
  bg,       \* goroutine position: "none"|"put"|"eof"|"ret"|"post"|"done"
  rdErr,    \* the error PutObject's last Read returned (Nil: none yet)
  putErr,   \* the error PutObject returned
  errCh,    \* contents of the buffered channel errCh
  issued,   \* payloads of the Writes issued while the write end was open
  late,     \* payloads of the Writes issued after Sync or Close
  wlast,    \* result of the last returned Write: << >> or <<n, err>>
  acc,      \* bytes accepted by Writes that returned a nil error
  syncRets, \* values returned by Sync, in order
  closed,   \* the first Close: "no" (none yet) | "discard" (before Sync)
            \* | "noop" (after Sync)
  opn,      \* the last Open: << >> or <<[key, had, resp, res, data]>>
  dpc,      \* Delete position: "idle" | "loop"
  dkeys,    \* Delete: the keys argument
  didx,     \* Delete: index of the next key of the range loop
  lastErr,  \* Delete: lastErr
  rmLog,    \* RemoveObject calls of the current Delete: <<key, err>>
  dpre,     \* bucket contents when the current Delete was called
  delRets   \* value returned by the last Delete: << >> or <<err>>

pipeVars == <<werr, rerr, wb, offered>>
callerVars == <<pc, didSync, issued, late, wlast, acc, syncRets, closed>>
bgVars == <<got, bg, rdErr, putErr, errCh>>
delVars == <<dpc, dkeys, didx, lastErr, rmLog, dpre, delRets>>
vars == <<store, store0, hkey, pipeVars, callerVars, bgVars, opn, delVars>>

Init ==
  /\ store \in [Keys -> {<< >>, <<OldObj>>}]
  /\ store0 = store
  /\ hkey = [h \in Handles |-> ""]
  /\ pc = [h \in Handles |-> "none"]
  /\ didSync = [h \in Handles |-> FALSE]
  /\ werr = [h \in Handles |-> Nil]
  /\ rerr = [h \in Handles |-> Nil]
  /\ wb = [h \in Handles |-> << >>]
  /\ offered = [h \in Handles |-> FALSE]
  /\ got = [h \in Handles |-> << >>]
  /\ bg = [h \in Handles |-> "none"]
  /\ rdErr = [h \in Handles |-> Nil]
  /\ putErr = [h \in Handles |-> Nil]
  /\ errCh = [h \in Handles |-> << >>]
  /\ issued = [h \in Handles |-> << >>]
  /\ late = [h \in Handles |-> << >>]
  /\ wlast = [h \in Handles |-> << >>]
  /\ acc = [h \in Handles |-> 0]
  /\ syncRets = [h \in Handles |-> << >>]
  /\ closed = [h \in Handles |-> "no"]
  /\ opn = << >>
  /\ dpc = "idle"
  /\ dkeys = << >>
  /\ didx = 1
  /\ lastErr = Nil
  /\ rmLog = << >>
  /\ dpre = store
  /\ delRets = << >>

\* ------------------------------------------------------------ the io.Pipe
\* done is closed by the first close of either end.
PipeDone(h) == werr[h] # Nil \/ rerr[h] # Nil

\* Variant of StoreOnce where a later close replaces the stored error.
StoreOnce_Last(old, e) == e

\* onceError.Store: only the first error is kept.
StoreOnce(old, e) == IF old = Nil THEN e ELSE old

\* pipe.closeWrite(err): a nil err becomes EOF.
CloseWrite(h, e) == StoreOnce(werr[h], IF e = Nil THEN EOF ELSE e)

\* pipe.closeRead(err): a nil err becomes ErrClosedPipe.
CloseRead(h, e) == StoreOnce(rerr[h], IF e = Nil THEN ErrClosedPipe ELSE e)

\* pipe.readCloseError
ReadCloseError(h) ==
  IF rerr[h] = Nil /\ werr[h] # Nil THEN werr[h] ELSE ErrClosedPipe

\* pipe.writeCloseError
WriteCloseError(h) ==
  IF werr[h] = Nil /\ rerr[h] # Nil THEN rerr[h] ELSE ErrClosedPipe

\* ------------------------------------------------------- Store.Create
\* io.Pipe(), make(chan error, 1), start the goroutine, return the handle.
\* Handles are created for distinct keys.
Create(h, k) ==
  /\ pc[h] = "none"
  /\ \A g \in Handles : hkey[g] # k
  /\ hkey' = [hkey EXCEPT ![h] = k]
  /\ pc' = [pc EXCEPT ![h] = "idle"]
  /\ bg' = [bg EXCEPT ![h] = "put"]
  /\ UNCHANGED <<store, store0, pipeVars, didSync, issued, late, wlast, acc,
                 syncRets, closed, got, rdErr, putErr, errCh, opn, delVars>>

\* Variant of WriteCall for a pipe whose Write does not look at done on
\* entry: the writer always offers p and blocks.
WriteCall_NoDoneCheck(h, p) ==
  /\ pc[h] = "idle"
  /\ Len(issued[h]) + Len(late[h]) < MaxWrites
  /\ issued' = IF werr[h] = Nil
                 THEN [issued EXCEPT ![h] = Append(@, p)] ELSE issued
  /\ late' = IF werr[h] = Nil
               THEN late ELSE [late EXCEPT ![h] = Append(@, p)]
  /\ pc' = [pc EXCEPT ![h] = "write"]
  /\ wb' = [wb EXCEPT ![h] = p]
  /\ offered' = [offered EXCEPT ![h] = TRUE]
  /\ wlast' = [wlast EXCEPT ![h] = << >>]
  /\ UNCHANGED <<store, store0, hkey, werr, rerr, didSync, acc, syncRets,
                 closed, bgVars, opn, delVars>>

\* ------------------------------------------------------- s3blob.Write
\* b.pw.Write(p), entry: with done closed it returns (0, writeCloseError)
\* at once; otherwise the writer offers p to the reader and blocks.
WriteCall(h, p) ==
  /\ pc[h] = "idle"
  /\ Len(issued[h]) + Len(late[h]) < MaxWrites
  /\ issued' = IF werr[h] = Nil
                 THEN [issued EXCEPT ![h] = Append(@, p)] ELSE issued
  /\ late' = IF werr[h] = Nil
               THEN late ELSE [late EXCEPT ![h] = Append(@, p)]
  /\ IF PipeDone(h)
       THEN /\ wlast' = [wlast EXCEPT ![h] = <<0, WriteCloseError(h)>>]
            /\ UNCHANGED <<pc, wb, offered>>
       ELSE /\ pc' = [pc EXCEPT ![h] = "write"]
            /\ wb' = [wb EXCEPT ![h] = p]
            /\ offered' = [offered EXCEPT ![h] = TRUE]
            /\ wlast' = [wlast EXCEPT ![h] = << >>]
  /\ UNCHANGED <<store, store0, hkey, werr, rerr, didSync, acc, syncRets, closed,
                 bgVars, opn, delVars>>

\* The payload of the Write in progress (the last one issued).
CurPayload(h) == issued[h][Len(issued[h])]

\* Variant of WriteReturn for a pipe that buffers: the Write returns
\* (len(p), nil) without waiting for a Read.
WriteReturn_Early(h) ==
  /\ pc[h] = "write"
  /\ wlast' = [wlast EXCEPT ![h] = <<Len(CurPayload(h)), Nil>>]
  /\ acc' = [acc EXCEPT ![h] = @ + Len(CurPayload(h))]
  /\ pc' = [pc EXCEPT ![h] = "idle"]
  /\ UNCHANGED <<store, store0, hkey, pipeVars, didSync, issued, late,
                 syncRets, closed, bgVars, opn, delVars>>

\* b.pw.Write(p), return: (len(p), nil) once every byte has been taken by
\* a Read, or (n, writeCloseError) when done is closed while bytes remain.
WriteReturn(h) ==
  /\ pc[h] = "write"
  /\ \/ /\ ~offered[h]
        /\ wlast' = [wlast EXCEPT ![h] = <<Len(CurPayload(h)), Nil>>]
        /\ acc' = [acc EXCEPT ![h] = @ + Len(CurPayload(h))]
        /\ UNCHANGED <<wb, offered>>
     \/ /\ offered[h]
        /\ PipeDone(h)
        /\ wlast' = [wlast EXCEPT ![h] =
                       <<Len(CurPayload(h)) - Len(wb[h]), WriteCloseError(h)>>]
        /\ wb' = [wb EXCEPT ![h] = << >>]
        /\ offered' = [offered EXCEPT ![h] = FALSE]
        /\ UNCHANGED acc
  /\ pc' = [pc EXCEPT ![h] = "idle"]
  /\ UNCHANGED <<store, store0, hkey, werr, rerr, didSync, issued, late, syncRets,
                 closed, bgVars, opn, delVars>>

\* Variant of SyncCall without the didSync check.
SyncCall_NoCheck(h) ==
  /\ pc[h] = "idle"
  /\ werr' = [werr EXCEPT ![h] = CloseWrite(h, Nil)]
  /\ didSync' = [didSync EXCEPT ![h] = TRUE]
  /\ pc' = [pc EXCEPT ![h] = "sync"]
  /\ UNCHANGED <<store, store0, hkey, rerr, wb, offered, issued, late, wlast,
                 acc, syncRets, closed, bgVars, opn, delVars>>

\* -------------------------------------------------------- s3blob.Sync
\* Sync up to the channel receive: the didSync check (a panic unwinds the
\* calling goroutine), b.pw.Close(), didSync = true.
SyncCall(h) ==
  /\ pc[h] = "idle"
  /\ IF didSync[h]
       THEN /\ pc' = [pc EXCEPT ![h] = "panic"]
            /\ UNCHANGED <<werr, didSync>>
       ELSE /\ werr' = [werr EXCEPT ![h] = CloseWrite(h, Nil)]
            /\ didSync' = [didSync EXCEPT ![h] = TRUE]
            /\ pc' = [pc EXCEPT ![h] = "sync"]
  /\ UNCHANGED <<store, store0, hkey, rerr, wb, offered, issued, late, wlast, acc,
                 syncRets, closed, bgVars, opn, delVars>>

\* Variant of SyncReturn where the handles share one outcome channel.
SyncReturn_Shared(h) ==
  /\ pc[h] = "sync"
  /\ \E g \in Handles :
       /\ errCh[g] # << >>
       /\ syncRets' = [syncRets EXCEPT ![h] = Append(@, Head(errCh[g]))]
       /\ errCh' = [errCh EXCEPT ![g] = Tail(@)]
  /\ pc' = [pc EXCEPT ![h] = "idle"]
  /\ UNCHANGED <<store, store0, hkey, pipeVars, didSync, issued, late, wlast,
                 acc, closed, got, bg, rdErr, putErr, opn, delVars>>

\* Variant of SyncReturn that does not wait for the goroutine's outcome.
SyncReturn_NoWait(h) ==
  /\ pc[h] = "sync"
  /\ syncRets' = [syncRets EXCEPT ![h] = Append(@, Nil)]
  /\ pc' = [pc EXCEPT ![h] = "idle"]
  /\ UNCHANGED <<store, store0, hkey, pipeVars, didSync, issued, late, wlast,
                 acc, closed, bgVars, opn, delVars>>

\* return <-b.errCh
SyncReturn(h) ==
  /\ pc[h] = "sync"
  /\ errCh[h] # << >>
  /\ syncRets' = [syncRets EXCEPT ![h] = Append(@, Head(errCh[h]))]
  /\ errCh' = [errCh EXCEPT ![h] = Tail(@)]
  /\ pc' = [pc EXCEPT ![h] = "idle"]
  /\ UNCHANGED <<store, store0, hkey, pipeVars, didSync, issued, late, wlast, acc,
                 closed, got, bg, rdErr, putErr, opn, delVars>>

\* Variant of Close that leaves the pipe alone.
Close_NoAbort(h) ==
  /\ pc[h] = "idle"
  /\ closed' = IF closed[h] = "no"
                 THEN [closed EXCEPT ![h] =
                         IF didSync[h] THEN "noop" ELSE "discard"]
                 ELSE closed
  /\ UNCHANGED <<store, store0, hkey, werr, rerr, wb, offered, pc, didSync,
                 issued, late, wlast, acc, syncRets, bgVars, opn, delVars>>

\* Variant of Close that closes the write end cleanly (pw.Close()).
Close_Clean(h) ==
  /\ pc[h] = "idle"
  /\ werr' = IF ~didSync[h]
               THEN [werr EXCEPT ![h] = CloseWrite(h, Nil)] ELSE werr
  /\ closed' = IF closed[h] = "no"
                 THEN [closed EXCEPT ![h] =
                         IF didSync[h] THEN "noop" ELSE "discard"]
                 ELSE closed
  /\ UNCHANGED <<store, store0, hkey, rerr, wb, offered, pc, didSync, issued,
                 late, wlast, acc, syncRets, bgVars, opn, delVars>>

\* Variant of Close that makes the handle usable again after a Sync.
Close_Reset(h) ==
  /\ pc[h] = "idle"
  /\ werr' = IF ~didSync[h]
               THEN [werr EXCEPT ![h] = CloseWrite(h, ErrNoSync)] ELSE werr
  /\ didSync' = [didSync EXCEPT ![h] = FALSE]
  /\ closed' = IF closed[h] = "no"
                 THEN [closed EXCEPT ![h] =
                         IF didSync[h] THEN "noop" ELSE "discard"]
                 ELSE closed
  /\ UNCHANGED <<store, store0, hkey, rerr, wb, offered, pc, issued, late,
                 wlast, acc, syncRets, bgVars, opn, delVars>>

\* ------------------------------------------------------- s3blob.Close
Close(h) ==
  /\ pc[h] = "idle"
  /\ werr' = IF ~didSync[h]
               THEN [werr EXCEPT ![h] = CloseWrite(h, ErrNoSync)] ELSE werr
  /\ closed' = IF closed[h] = "no"
                 THEN [closed EXCEPT ![h] =
                         IF didSync[h] THEN "noop" ELSE "discard"]
                 ELSE closed
  /\ UNCHANGED <<store, store0, hkey, rerr, wb, offered, pc, didSync, issued, late,
                 wlast, acc, syncRets, bgVars, opn, delVars>>

\* Variant of PutReadData where a Read that takes part of a Write loses
\* the rest of it.
PutReadData_Drop(h, n) ==
  /\ bg[h] = "put"
  /\ ~PipeDone(h)
  /\ offered[h]
  /\ LET nr == Min(n, Len(wb[h])) IN
       got' = [got EXCEPT ![h] = @ \o SubSeq(wb[h], 1, nr)]
  /\ wb' = [wb EXCEPT ![h] = << >>]
  /\ offered' = [offered EXCEPT ![h] = FALSE]
  /\ UNCHANGED <<store, store0, hkey, werr, rerr, callerVars, bg, rdErr,
                 putErr, errCh, opn, delVars>>

\* ------------------------------------- the goroutine started by Create
\* PutObject reads from pr with a buffer of n bytes while a Write is
\* offering: it takes min(n, len(b)) bytes; the writer goes on offering
\* while bytes remain (a zero-length Write is taken by one Read).
PutReadData(h, n) ==
  /\ bg[h] = "put"
  /\ ~PipeDone(h)
  /\ offered[h]
  /\ LET nr == Min(n, Len(wb[h])) IN
       /\ got' = [got EXCEPT ![h] = @ \o SubSeq(wb[h], 1, nr)]
       /\ wb' = [wb EXCEPT ![h] = SubSeq(@, nr + 1, Len(@))]
       /\ offered' = [offered EXCEPT ![h] = nr < Len(wb[h])]
  /\ UNCHANGED <<store, store0, hkey, werr, rerr, callerVars, bg, rdErr, putErr,
                 errCh, opn, delVars>>

\* PutObject reads from pr with done closed: the Read returns
\* readCloseError.  EOF ends the object; any other error aborts the put,
\* which returns that error.
PutReadClosed(h) ==
  /\ bg[h] = "put"
  /\ PipeDone(h)
  /\ rdErr' = [rdErr EXCEPT ![h] = ReadCloseError(h)]
  /\ IF ReadCloseError(h) = EOF
       THEN /\ bg' = [bg EXCEPT ![h] = "eof"]
            /\ UNCHANGED putErr
       ELSE /\ bg' = [bg EXCEPT ![h] = "ret"]
            /\ putErr' = [putErr EXCEPT ![h] = ReadCloseError(h)]
  /\ UNCHANGED <<store, store0, hkey, pipeVars, callerVars, got, errCh, opn,
                 delVars>>

\* PutObject, having read to EOF, completes the upload: the object now
\* holds exactly the bytes read, and PutObject returns nil.
PutCommit(h) ==
  /\ bg[h] = "eof"
  /\ store' = [store EXCEPT ![hkey[h]] = <<got[h]>>]
  /\ putErr' = [putErr EXCEPT ![h] = Nil]
  /\ bg' = [bg EXCEPT ![h] = "ret"]
  /\ UNCHANGED <<store0, hkey, pipeVars, callerVars, got, rdErr, errCh,
                 opn, delVars>>

\* PutObject fails in the backend (at any point of the upload): nothing is
\* stored and it returns the backend's error.
PutFail(h) ==
  /\ bg[h] \in {"put", "eof"}
  /\ putErr' = [putErr EXCEPT ![h] = ErrBackend(hkey[h])]
  /\ bg' = [bg EXCEPT ![h] = "ret"]
  /\ UNCHANGED <<store, store0, hkey, pipeVars, callerVars, got, rdErr, errCh, opn,
                 delVars>>

\* Variant of BgCloseRead that never closes the read end.
BgCloseRead_NoClose(h) ==
  /\ bg[h] = "ret"
  /\ bg' = [bg EXCEPT ![h] = "post"]
  /\ UNCHANGED <<store, store0, hkey, pipeVars, callerVars, got, rdErr,
                 putErr, errCh, opn, delVars>>

\* Variant of BgCloseRead that also posts the error inside the if.
BgCloseRead_AlsoPost(h) ==
  /\ bg[h] = "ret"
  /\ rerr' = IF putErr[h] # Nil
               THEN [rerr EXCEPT ![h] = CloseRead(h, Wrap(putErr[h]))]
               ELSE rerr
  /\ errCh' = IF putErr[h] # Nil
                THEN [errCh EXCEPT ![h] = Append(@, putErr[h])]
                ELSE errCh
  /\ bg' = [bg EXCEPT ![h] = "post"]
  /\ UNCHANGED <<store, store0, hkey, werr, wb, offered, callerVars, got,
                 rdErr, putErr, opn, delVars>>

\* Variant of BgCloseRead that closes the read end with the bare error.
BgCloseRead_Bare(h) ==
  /\ bg[h] = "ret"
  /\ rerr' = IF putErr[h] # Nil
               THEN [rerr EXCEPT ![h] = CloseRead(h, putErr[h])]
               ELSE rerr
  /\ bg' = [bg EXCEPT ![h] = "post"]
  /\ UNCHANGED <<store, store0, hkey, werr, wb, offered, callerVars, got,
                 rdErr, putErr, errCh, opn, delVars>>

\* if err != nil { pr.CloseWithError(fmt.Errorf("s3 PutObject: %w", err)) }
BgCloseRead(h) ==
  /\ bg[h] = "ret"
  /\ rerr' = IF putErr[h] # Nil
               THEN [rerr EXCEPT ![h] = CloseRead(h, Wrap(putErr[h]))]
               ELSE rerr
  /\ bg' = [bg EXCEPT ![h] = "post"]
  /\ UNCHANGED <<store, store0, hkey, werr, wb, offered, callerVars, got, rdErr,
                 putErr, errCh, opn, delVars>>

\* Variant of BgPost that posts nil whatever PutObject returned.
BgPost_DropErr(h) ==
  /\ bg[h] = "post"
  /\ Len(errCh[h]) < ErrChCap
  /\ errCh' = [errCh EXCEPT ![h] = Append(@, Nil)]
  /\ bg' = [bg EXCEPT ![h] = "done"]
  /\ UNCHANGED <<store, store0, hkey, pipeVars, callerVars, got, rdErr,
                 putErr, opn, delVars>>

\* errCh <- err: blocks while the channel's buffer is full.
BgPost(h) ==
  /\ bg[h] = "post"
  /\ Len(errCh[h]) < ErrChCap
  /\ errCh' = [errCh EXCEPT ![h] = Append(@, putErr[h])]
  /\ bg' = [bg EXCEPT ![h] = "done"]
  /\ UNCHANGED <<store, store0, hkey, pipeVars, callerVars, got, rdErr, putErr,
                 opn, delVars>>

\* --------------------------------------------------------- Store.Open
ErrNotFound == <<"NoSuchKey">>
ErrGet == <<"get failed">>
ErrRemove == <<"remove failed">>

\* minio.ToErrorResponse(err).StatusCode
StatusCode(err) == IF err = ErrNotFound THEN StatusNotFound ELSE 500

\* GetObject on key k: the backend answers not-found exactly when the key
\* holds no object; any request may also fail for another reason.
GetObjectErrs(k) == IF store[k] = << >> THEN {ErrNotFound, ErrGet}
                                         ELSE {Nil, ErrGet}

\* Variant of OpenErr without the not-found mapping.
OpenErr_NoMap(err) == err

\* The error Open returns for GetObject's error.
OpenErr(err) ==
  IF err # Nil
    THEN IF StatusCode(err) = StatusNotFound THEN ErrNoSuchBlob ELSE err
    ELSE Nil

Open(k) ==
  /\ \E err \in GetObjectErrs(k) :
       opn' = <<[key |-> k, had |-> store[k] # << >>, err |-> err,
                 res |-> OpenErr(err),
                 data |-> IF OpenErr(err) = Nil THEN store[k] ELSE << >>]>>
  /\ UNCHANGED <<store, store0, hkey, pipeVars, callerVars, bgVars, delVars>>

\* ------------------------------------------------------- Store.Delete
KeyLists == UNION {[1..n -> Keys] : n \in 0..MaxKeys}

\* var lastErr error, entering the range loop
DeleteCall(ks) ==
  /\ dpc = "idle"
  /\ dpc' = "loop"
  /\ dkeys' = ks
  /\ didx' = 1
  /\ lastErr' = Nil
  /\ rmLog' = << >>
  /\ dpre' = store
  /\ delRets' = << >>
  /\ UNCHANGED <<store, store0, hkey, pipeVars, callerVars, bgVars, opn>>

\* Variant of DeleteStep that leaves the loop at the first failure.
DeleteStep_Break ==
  /\ dpc = "loop"
  /\ didx <= Len(dkeys)
  /\ \E e \in {Nil, ErrRemove} :
       /\ store' = IF e = Nil THEN [store EXCEPT ![dkeys[didx]] = << >>]
                              ELSE store
       /\ lastErr' = e
       /\ rmLog' = Append(rmLog, <<dkeys[didx], e>>)
       /\ didx' = IF e = Nil THEN didx + 1 ELSE Len(dkeys) + 1
  /\ UNCHANGED <<store0, hkey, pipeVars, callerVars, bgVars, opn, dpc,
                 dkeys, dpre, delRets>>

\* One iteration: lastErr = RemoveObject(k), which either removes the
\* object (nil) or fails and leaves the bucket as it is; a failure is
\* logged and the loop goes on.
DeleteStep ==
  /\ dpc = "loop"
  /\ didx <= Len(dkeys)
  /\ \E e \in {Nil, ErrRemove} :
       /\ store' = IF e = Nil THEN [store EXCEPT ![dkeys[didx]] = << >>]
                              ELSE store
       /\ lastErr' = e
       /\ rmLog' = Append(rmLog, <<dkeys[didx], e>>)
  /\ didx' = didx + 1
  /\ UNCHANGED <<store0, hkey, pipeVars, callerVars, bgVars, opn, dpc,
                 dkeys, dpre, delRets>>

\* return lastErr
DeleteReturn ==
  /\ dpc = "loop"
  /\ didx > Len(dkeys)
  /\ delRets' = <<lastErr>>
  /\ dpc' = "idle"
  /\ UNCHANGED <<store, store0, hkey, pipeVars, callerVars, bgVars, opn, dkeys,
                 didx, lastErr, rmLog, dpre>>

\* ------------------------------------------------------ specifications
WriteAny(h) == \E p \in Payloads : WriteCall(h, p)
PutReadAny(h) == \E n \in 1..MaxRead : PutReadData(h, n)
OpenAny == \E k \in Keys : Open(k)
DeleteAny == \E ks \in KeyLists : DeleteCall(ks)

\* PutObject, once it has read to EOF, returns (nil or an error).
PutFinish(h) == PutCommit(h) \/ (bg[h] = "eof" /\ PutFail(h))

\* The scheduler runs a goroutine that can take a step: the goroutine
\* started by Create, and a caller whose blocking call can return.
\* Nothing obliges a caller to make a call, or the backend to fail.
Fair(h) ==
  /\ WF_vars(PutReadAny(h))
  /\ WF_vars(PutReadClosed(h))
  /\ WF_vars(PutFinish(h))
  /\ WF_vars(BgCloseRead(h))
  /\ WF_vars(BgPost(h))
  /\ WF_vars(WriteReturn(h))
  /\ WF_vars(SyncReturn(h))

\* One handle, on the key "a", with its goroutine; the other keys hold
\* nothing.
SoloKey == "a"

SoloCreate(h) == Create(h, SoloKey)

InitSolo == Init /\ \A k \in Keys \ {SoloKey} : store[k] = << >>

Next ==
  \/ \E h \in Solo : SoloCreate(h)
  \/ \E h \in Solo : WriteAny(h)
  \/ \E h \in Solo : WriteReturn(h)
  \/ \E h \in Solo : SyncCall(h)
  \/ \E h \in Solo : SyncReturn(h)
  \/ \E h \in Solo : Close(h)
  \/ \E h \in Solo : PutReadAny(h)
  \/ \E h \in Solo : PutReadClosed(h)
  \/ \E h \in Solo : PutCommit(h)
  \/ \E h \in Solo : PutFail(h)
  \/ \E h \in Solo : BgCloseRead(h)
  \/ \E h \in Solo : BgPost(h)

Spec == InitSolo /\ [][Next]_vars

\* The same handle where every byte written is zero (what the bytes are
\* does not change who blocks or returns), under fair scheduling.
ZeroPayloads == {p \in Payloads : \A i \in 1..Len(p) : p[i] = 0}

ZeroWrite(h) == \E p \in ZeroPayloads : WriteCall(h, p)

NextFair ==
  \/ \E h \in Solo : SoloCreate(h)
  \/ \E h \in Solo : ZeroWrite(h)
  \/ \E h \in Solo : WriteReturn(h)
  \/ \E h \in Solo : SyncCall(h)
  \/ \E h \in Solo : SyncReturn(h)
  \/ \E h \in Solo : Close(h)
  \/ \E h \in Solo : PutReadAny(h)
  \/ \E h \in Solo : PutReadClosed(h)
  \/ \E h \in Solo : PutCommit(h)
  \/ \E h \in Solo : PutFail(h)
  \/ \E h \in Solo : BgCloseRead(h)
  \/ \E h \in Solo : BgPost(h)

FairSpec == InitSolo /\ [][NextFair]_vars /\ \A h \in Solo : Fair(h)

\* Two handles on the keys "a" and "b", each with its goroutine; a Write
\* carries nothing or one zero byte, and each handle takes PairWrites
\* Writes.
PairKey == <<"a", "b">>

PairCreate(h) == Create(h, PairKey[h])

PairPayloads == {<< >>, <<0>>}

PairWrite(h) ==
  /\ Len(issued[h]) + Len(late[h]) < PairWrites
  /\ \E p \in PairPayloads : WriteCall(h, p)

InitPair == Init /\ store = [k \in Keys |-> << >>]

NextPair ==
  \/ \E h \in Handles : PairCreate(h)
  \/ \E h \in Handles : PairWrite(h)
  \/ \E h \in Handles : WriteReturn(h)
  \/ \E h \in Handles : SyncCall(h)
  \/ \E h \in Handles : SyncReturn(h)
  \/ \E h \in Handles : Close(h)
  \/ \E h \in Handles : PutReadAny(h)
  \/ \E h \in Handles : PutReadClosed(h)
  \/ \E h \in Handles : PutCommit(h)
  \/ \E h \in Handles : PutFail(h)
  \/ \E h \in Handles : BgCloseRead(h)
  \/ \E h \in Handles : BgPost(h)

SpecPair == InitPair /\ [][NextPair]_vars

\* Handle 1 is scheduled; handle 2's goroutine and caller may stall at
\* any point.
FairPair == SpecPair /\ Fair(1)

\* Batch deletes and readers of the bucket.
NextDelete ==
  \/ DeleteAny
  \/ DeleteStep
  \/ DeleteReturn
  \/ OpenAny

SpecDelete == Init /\ [][NextDelete]_vars


\* ------------------------------------------------------------- properties
\* What Open(k) can return now: <<err>> or, on success, <<Nil, data>>.
OpenResults(k) ==
  {IF OpenErr(e) = Nil THEN <<Nil, store[k][1]>> ELSE <<OpenErr(e)>> :
     e \in GetObjectErrs(k)}

\* C1: once Sync has returned nil, the object under the handle's key is
\* exactly the concatenation of the payloads written before the Sync, in
\* order (the empty object when there were none), and that is what a
\* successful Open of the key yields.
RoundTrip ==
  \A h \in Handles :
    syncRets[h] = <<Nil>> =>
      /\ store[hkey[h]] = <<Flat(issued[h])>>
      /\ <<Nil, Flat(issued[h])>> \in OpenResults(hkey[h])
      /\ \A r \in OpenResults(hkey[h]) : r[1] = Nil => r[2] = Flat(issued[h])

RoundTripWitness ==
  /\ syncRets[1] = <<Nil>>
  /\ issued[1] = <<<<0, 1>>, <<0>>>>
  /\ store[hkey[1]] = <<<<0, 1, 0>>>>

\* C2 (as claimed): a returned Delete reports an error exactly when at
\* least one RemoveObject of the call failed.
DeleteReportsAnyFailure ==
  delRets # << >> =>
    (delRets[1] # Nil <=> \E i \in 1..Len(rmLog) : rmLog[i][2] # Nil)

\* The removals of key k in the current Delete call.
Removals(k) == {i \in 1..Len(rmLog) : rmLog[i][1] = k}

\* C3: Delete attempts the removal of every key once, in the order of the
\* list, whatever failed before; when it returns, a key with a successful
\* removal is absent, a key whose removals all failed is as it was at the
\* call, and so is a key that is not in the list.
DeleteNoShortCircuit ==
  /\ dpc = "loop" =>
       /\ Len(rmLog) = didx - 1
       /\ \A i \in 1..Len(rmLog) : rmLog[i][1] = dkeys[i]
  /\ delRets # << >> =>
       /\ Len(rmLog) = Len(dkeys)
       /\ \A i \in 1..Len(dkeys) : rmLog[i][1] = dkeys[i]
       /\ \A k \in Keys :
            IF \E i \in Removals(k) : rmLog[i][2] = Nil
              THEN store[k] = << >>
              ELSE store[k] = dpre[k]

DeleteNoShortCircuitWitness ==
  /\ delRets # << >>
  /\ dkeys = <<"a", "b", "c">>
  /\ dpre = [k \in Keys |-> <<OldObj>>]
  /\ rmLog = <<<<"a", Nil>>, <<"b", ErrRemove>>, <<"c", Nil>>>>
  /\ store = [k \in Keys |-> IF k = "b" THEN <<OldObj>> ELSE << >>]

\* C4: a Sync called on a handle whose Sync has already returned panics:
\* it returns nothing and changes nothing else; no handle ever has two
\* returned Syncs.
SecondSyncTraps ==
  [][\A h \in Handles :
       /\ Len(syncRets'[h]) <= 1
       /\ (syncRets[h] # << >> /\ pc[h] = "idle"
             /\ pc'[h] \notin {"idle", "write"})
          => /\ pc'[h] = "panic"
             /\ syncRets'[h] = syncRets[h]
             /\ werr'[h] = werr[h]
             /\ errCh'[h] = errCh[h]]_vars

SecondSyncTrapsWitness ==
  /\ pc[1] = "panic"
  /\ Len(syncRets[1]) = 1

\* C5: once a handle has been Closed before any Sync, its goroutine
\* eventually terminates.
DiscardUnblocks ==
  \A h \in Solo : (closed[h] = "discard") ~> (bg[h] = "done")

\* The put was reading the pipe when the handle was discarded, and the
\* goroutine has terminated.
DiscardUnblocksWitness ==
  /\ closed[1] = "discard"
  /\ rdErr[1] = ErrNoSync
  /\ got[1] # << >>
  /\ bg[1] = "done"

\* C6: a handle Closed before any Sync stores nothing: the put never reads
\* EOF (a Read after the Close returns the Close's error), PutObject
\* returns an error, the key's object is what it was at the start, and
\* when there was none Open's answer to the backend's not-found is
\* ErrNoSuchBlob.
DiscardStoresNothing ==
  \A h \in Handles :
    closed[h] = "discard" =>
      /\ rdErr[h] \in {Nil, ErrNoSync}
      /\ bg[h] # "eof"
      /\ bg[h] \in {"ret", "post", "done"} => putErr[h] # Nil
      /\ store[hkey[h]] = store0[hkey[h]]
      /\ store0[hkey[h]] = << >> =>
           /\ <<ErrNoSuchBlob>> \in OpenResults(hkey[h])
           /\ \A r \in OpenResults(hkey[h]) : r[1] # Nil

DiscardStoresNothingWitness ==
  /\ closed[1] = "discard"
  /\ Len(issued[1]) = 2
  /\ got[1] = <<1, 0>>
  /\ bg[1] = "done"
  /\ putErr[1] = ErrNoSync
  /\ store[hkey[1]] = << >>

\* C7 (as claimed): Sync returns nil exactly when PutObject returned nil,
\* and otherwise returns PutObject's error wrapped as an upload failure.
SyncReturnsWrapped ==
  \A h \in Handles :
    syncRets[h] # << >> =>
      /\ syncRets[h][1] = Nil <=> putErr[h] = Nil
      /\ putErr[h] # Nil => syncRets[h][1] = Wrap(putErr[h])

\* C8: with the goroutine and the backend call scheduled, a Write that is
\* blocked in the pipe returns, and a Sync that is waiting returns.
NoDeadlock ==
  \A h \in Solo :
    /\ (pc[h] = "write") ~> (pc[h] # "write")
    /\ (pc[h] = "sync") ~> (pc[h] # "sync")

\* Two full Writes, each larger than one Read took, then a returned Sync.
NoDeadlockWitness ==
  /\ acc[1] = 2 * MaxChunk
  /\ Len(issued[1]) = 2
  /\ syncRets[1] # << >>
  /\ pc[1] = "idle"

\* C9: with only handle 1 scheduled, its blocked Write and its waiting
\* Sync return whatever handle 2 does, and a Sync always returns the
\* error of the PutObject call of its own handle.
Independent ==
  /\ (pc[1] = "write") ~> (pc[1] # "write")
  /\ (pc[1] = "sync") ~> (pc[1] # "sync")
  /\ [](\A h \in Handles :
          syncRets[h] # << >> => syncRets[h] = <<putErr[h]>>)

\* Handle 1 has written and Synced while handle 2's Write is still blocked
\* on an upload that has read nothing.
IndependentWitness ==
  /\ syncRets[1] = <<Nil>>
  /\ acc[1] = 1
  /\ pc[2] = "write"
  /\ bg[2] = "put"
  /\ got[2] = << >>

\* C10: Open returns ErrNoSuchBlob for the backend's not-found error and
\* any other backend error as it is; it returns ErrNoSuchBlob only for a
\* key without an object, and for such a key nothing but ErrNoSuchBlob or
\* the backend's own failure; a successful Open yields the object.
OpenMapping ==
  opn # << >> =>
    LET o == opn[1] IN
      /\ o.err = ErrNotFound => o.res = ErrNoSuchBlob
      /\ o.err # ErrNotFound => o.res = o.err
      /\ o.res = ErrNoSuchBlob => ~o.had
      /\ ~o.had => o.res \in {ErrNoSuchBlob, ErrGet}
      /\ o.res = Nil => o.had /\ o.data # << >>

\* Open of a key whose object a Delete has just removed.
OpenMappingWitness ==
  /\ opn # << >>
  /\ opn[1].res = ErrNoSuchBlob
  /\ dpre[opn[1].key] # << >>
  /\ delRets = <<Nil>>


\* The values the goroutine has posted on errCh so far: those still in the
\* channel and those a Sync has received.
Posted(h) == Len(errCh[h]) + Len(syncRets[h])

\* C11: the goroutine posts one value in its lifetime, as its last step:
\* nothing is posted before it is done and exactly one value once it is;
\* the channel never holds two values; the send finds a free slot whether
\* or not a Sync is receiving; and once PutObject has returned the
\* goroutine exits.
OnePost ==
  /\ [](\A h \in Solo :
          /\ Len(errCh[h]) <= 1
          /\ Posted(h) = IF bg[h] = "done" THEN 1 ELSE 0
          /\ bg[h] = "post" => Len(errCh[h]) < ErrChCap)
  /\ \A h \in Solo : (bg[h] = "ret") ~> (bg[h] = "done")

\* A discarded handle on which Sync was never called: the value stays in
\* the channel and the goroutine is done.
OnePostWitness ==
  /\ closed[1] = "discard"
  /\ ~didSync[1]
  /\ bg[1] = "done"
  /\ errCh[1] = <<ErrNoSync>>

\* C12: a Sync has returned only if the goroutine is done, that is after
\* PutObject returned and its outcome was posted; the value returned is
\* that outcome.
SyncAfterPut ==
  \A h \in Handles :
    syncRets[h] # << >> =>
      /\ bg[h] = "done"
      /\ syncRets[h] = <<putErr[h]>>

\* Sync was called while the put was still reading (a Write had been
\* taken), and has returned.
SyncAfterPutWitness ==
  /\ syncRets[1] # << >>
  /\ got[1] # << >>
  /\ rdErr[1] = EOF
  /\ pc[1] = "idle"


\* C13: once the goroutine is done, a Write issued on the handle returns
\* at once with an error, a Write that is blocked in the pipe returns an
\* error when it returns, and it does return.
WriteAfterTaskEnd ==
  /\ [][\A h \in Solo :
          bg[h] = "done" =>
            /\ (pc[h] = "idle"
                  /\ <<issued'[h], late'[h]>> # <<issued[h], late[h]>>)
               => /\ pc'[h] = "idle"
                  /\ wlast'[h] # << >>
                  /\ wlast'[h][2] # Nil
            /\ (pc[h] = "write" /\ offered[h] /\ pc'[h] # "write")
               => wlast'[h][2] # Nil]_vars
  /\ \A h \in Solo : (bg[h] = "done" /\ pc[h] = "write") ~> (pc[h] # "write")

\* Sync returned the put's failure (so the goroutine was done), then a
\* Write was issued and returned an error.
WriteAfterTaskEndWitness ==
  /\ syncRets[1] = <<ErrBackend(SoloKey)>>
  /\ closed[1] = "no"
  /\ late[1] # << >>
  /\ pc[1] = "idle"
  /\ wlast[1] = <<0, ErrClosedPipe>>

\* C14 (as claimed): a Write fails only with the pipe's own error, never
\* with the failure of the put call.
WriteFailsLocallyOnly ==
  \A h \in Handles :
    wlast[h] # << >> => wlast[h][2] \in {Nil, ErrClosedPipe}

\* C14 (amended): a failing Write returns either ErrClosedPipe or, on a
\* handle whose write end is still open when the goroutine has closed the
\* read end after a failed put, that put's error wrapped as
\* "s3 PutObject: ..."; no Write returns the bare error of the put call.
WriteErrors ==
  \A h \in Handles :
    (wlast[h] # << >> /\ wlast[h][2] # Nil) =>
      /\ wlast[h][2] # putErr[h]
      /\ \/ wlast[h][2] = ErrClosedPipe
         \/ /\ putErr[h] # Nil
            /\ bg[h] \in {"post", "done"}
            /\ wlast[h][2] = Wrap(putErr[h])

\* A Write of two bytes was released after one byte by the failure of the
\* put call.
WriteErrorsWitness ==
  /\ wlast[1] = <<1, Wrap(ErrBackend(SoloKey))>>
  /\ got[1] = <<1>>
  /\ issued[1] = <<<<1, 0>>>>


IsPrefix(s, t) == Len(s) <= Len(t) /\ SubSeq(t, 1, Len(s)) = s

\* C15: a Write returns nil only after PutObject has read all of its
\* bytes: the bytes of the Writes that returned nil are never more than
\* the bytes read, and they are the first bytes read; a nil Write reports
\* the full length of its payload.
ProducerNotAhead ==
  \A h \in Handles :
    /\ acc[h] <= Len(got[h])
    /\ SubSeq(Flat(issued[h]), 1, acc[h]) = SubSeq(got[h], 1, acc[h])
    /\ (wlast[h] # << >> /\ wlast[h][2] = Nil) =>
         /\ issued[h] # << >>
         /\ wlast[h][1] = Len(CurPayload(h))

\* Two Writes have returned nil while the put is still in flight, having
\* read exactly their bytes.
ProducerNotAheadWitness ==
  /\ acc[1] = 3
  /\ got[1] = <<1, 0, 1>>
  /\ wlast[1] = <<1, Nil>>
  /\ pc[1] = "idle"
  /\ bg[1] = "put"

\* C16: what PutObject has read is always a prefix of the payloads of the
\* Writes, concatenated in the order they were issued.
FifoDelivery ==
  \A h \in Handles : IsPrefix(got[h], Flat(issued[h]))

\* A failed and then discarded upload: the put took the first Write and
\* one byte of the second before it failed.
FifoDeliveryWitness ==
  /\ issued[1] = <<<<0>>, <<1, 1>>>>
  /\ got[1] = <<0, 1>>
  /\ putErr[1] = ErrBackend(SoloKey)
  /\ closed[1] = "discard"


\* C17: a Close on a handle that has been Synced changes nothing of the
\* pipe, of didSync, of the outcome channel, of the goroutine or of the
\* bucket.
CloseAfterSyncNoop ==
  [][\A h \in Handles :
       (didSync[h] /\ pc[h] = "idle" /\ closed'[h] # closed[h]) =>
         /\ closed'[h] = "noop"
         /\ <<werr'[h], rerr'[h], wb'[h], offered'[h]>>
              = <<werr[h], rerr[h], wb[h], offered[h]>>
         /\ didSync'[h]
         /\ errCh'[h] = errCh[h]
         /\ syncRets'[h] = syncRets[h]
         /\ <<bg'[h], putErr'[h], got'[h]>> = <<bg[h], putErr[h], got[h]>>
         /\ store' = store]_vars

\* Close after a Sync that returned nil: the object is still there.
CloseAfterSyncNoopWitness ==
  /\ closed[1] = "noop"
  /\ syncRets[1] = <<Nil>>
  /\ didSync[1]
  /\ werr[1] = EOF
  /\ store[SoloKey] = <<<<0, 1>>>>

\* C18: on a handle Closed before any Sync, a later Sync leaves the error
\* of the Close in the pipe (its clean close does not replace it), nothing
\* is stored, the Sync returns, and what it returns is an error.
SyncAfterDiscard ==
  /\ [](\A h \in Solo :
          closed[h] = "discard" =>
            /\ werr[h] = ErrNoSync
            /\ rdErr[h] # EOF
            /\ store[hkey[h]] = store0[hkey[h]]
            /\ syncRets[h] # << >> => syncRets[h][1] # Nil)
  /\ \A h \in Solo :
       (closed[h] = "discard" /\ pc[h] = "sync") ~> (pc[h] = "idle")

\* Sync after Close has returned the error the put got from the pipe.
SyncAfterDiscardWitness ==
  /\ closed[1] = "discard"
  /\ didSync[1]
  /\ pc[1] = "idle"
  /\ syncRets[1] = <<ErrNoSync>>

\* C19: a Write issued after Sync or after a Close before Sync returns
\* (0, ErrClosedPipe) at once and hands nothing to the pipe; at every step
\* what PutObject has read comes from the Writes issued while the write
\* end was open.
LateWriteRejected ==
  [][\A h \in Handles :
       /\ late'[h] # late[h] =>
            /\ pc'[h] = "idle"
            /\ wlast'[h] = <<0, ErrClosedPipe>>
            /\ <<got'[h], wb'[h], offered'[h]>> = <<got[h], wb[h], offered[h]>>
            /\ acc'[h] = acc[h]
            /\ store' = store
       /\ Len(got'[h]) <= Len(Flat(issued'[h]))]_vars

\* A Write of two bytes after a discard, with the put having read only the
\* byte written before it.
LateWriteRejectedWitness ==
  /\ closed[1] = "discard"
  /\ issued[1] = <<<<0>>>>
  /\ late[1] = <<<<1, 1>>>>
  /\ wlast[1] = <<0, ErrClosedPipe>>
  /\ got[1] = <<0>>

====
